---- MODULE Spec2Model ----
(***************************************************************************)
(* State-machine model of the CookieShop component                          *)
(* (src/cookie_shop_single_file_react_app.jsx): the cart store with its     *)
(* localStorage slot, the product query (search, category, sort), the       *)
(* checkout form and the order builder.                                     *)
(*                                                                          *)
(* Prices are kept in cents.  Every catalog price (4.5, 4.0, 5.0, 4.75) is  *)
(* a multiple of 0.25, so the binary64 sums and products of the source are  *)
(* exact and integer arithmetic on cents computes the same values.          *)
(*                                                                          *)
(* One action is one intent handled to completion: the handler's state      *)
(* updates, the re-render, and the effect that saves the cart.              *)
(***************************************************************************)
EXTENDS Integers, Sequences, FiniteSets, TLC

VARIABLES
    products,      \* useState products: the catalog array
    query,         \* useState query: the search text
    category,      \* useState category
    sort,          \* useState sort
    cart,          \* useState cart: a JS value (see the constructors below)
    slot,          \* localStorage item 'cookie_shop_cart'
    checkoutOpen,  \* useState checkoutOpen
    orderInfo,     \* useState orderInfo: {name, email, address}
    orderPlaced,   \* useState orderPlaced: NoOrder or an order record
    alertMsg,      \* text of the alert() raised by the intent just handled, "" if none
    receipts,      \* file names handed to the browser for download
    crashed        \* TRUE once a render has thrown (the tree is unmounted)

vars == <<products, query, category, sort, cart, slot, checkoutOpen, orderInfo,
          orderPlaced, alertMsg, receipts, crashed>>

----------------------------------------------------------------------------
(* Bounds of the model *)

\* a whole session (Spec, SpecFresh)
MaxItems == 3    \* most cookies in a cart (itemsInCart)
MaxKeys == 2     \* most keys of a cart

\* the cart functions taken alone (SpecCart)
MaxAnyQty == 3   \* largest quantity of a cart entry
MaxNeg == 1      \* quantities go down to -MaxNeg
MaxAnyKeys == 2  \* most keys of a cart

----------------------------------------------------------------------------
(* Catalog *)

SAMPLE_PRODUCTS ==
    << [id |-> "cookies-01", name |-> "Classic Chocolate Chip", price |-> 450,
        category |-> "Classic",
        desc |-> "Chewy, buttery cookies packed with semi-sweet chocolate chips."],
       [id |-> "cookies-02", name |-> "Oatmeal Raisin", price |-> 400,
        category |-> "Healthy",
        desc |-> "Wholesome oats, plump raisins and a cinnamon hint."],
       [id |-> "cookies-03", name |-> "Double Chocolate", price |-> 500,
        category |-> "Decadent",
        desc |-> "Intense cocoa cookie with extra dark chocolate chunks."],
       [id |-> "cookies-04", name |-> "Peanut Butter Swirl", price |-> 475,
        category |-> "Classic",
        desc |-> "Creamy peanut butter ribbon in a soft cookie."] >>

ProductIds == {products[i].id : i \in 1..Len(products)}

\* products.find(x => x.id === id): index of the first match, 0 for undefined
FindProduct(id) ==
    IF \E i \in 1..Len(products) : products[i].id = id
    THEN CHOOSE i \in 1..Len(products) :
            /\ products[i].id = id
            /\ \A j \in 1..(i - 1) : products[j].id # id
    ELSE 0

----------------------------------------------------------------------------
(* JS values a cart can be.  An object is its own enumerable string-keyed    *)
(* properties in enumeration order (insertion order for the non-index keys  *)
(* used here); an array of numbers has the index keys "0", "1", ...         *)

JsNull == [t |-> "null", n |-> 0, e |-> <<>>]
JsNum(n) == [t |-> "num", n |-> n, e |-> <<>>]
JsArr(s) == [t |-> "arr", n |-> 0,
             e |-> [i \in 1..Len(s) |-> [k |-> ToString(i - 1), v |-> s[i]]]]
JsObj(entries) == [t |-> "obj", n |-> 0, e |-> entries]

\* Object.entries(c) / Object.values(c) / Object.keys(c) throw a TypeError on null
EntriesThrow(c) == c.t = "null"
ObjectEntries(c) == c.e

HasKey(entries, key) == \E i \in 1..Len(entries) : entries[i].k = key
KeyIndex(entries, key) == CHOOSE i \in 1..Len(entries) : entries[i].k = key

\* next[key], with undefined read as 0 by the caller's `|| 0`
GetOr0(entries, key) ==
    IF HasKey(entries, key) THEN entries[KeyIndex(entries, key)].v ELSE 0

\* next[key] = value: an existing key keeps its place, a new key is appended
SetKey(entries, key, value) ==
    IF HasKey(entries, key)
    THEN [entries EXCEPT ![KeyIndex(entries, key)].v = value]
    ELSE Append(entries, [k |-> key, v |-> value])

\* delete next[key]
DeleteKey(entries, key) ==
    SelectSeq(entries, LAMBDA en : en.k # key)

\* { ...prev }: the own enumerable properties; none for null and for a number
Spread(prev) == prev.e

----------------------------------------------------------------------------
(* JSON text, as the sequence of its tokens.  A string token carries its    *)
(* quotes, a number token its decimal digits.                               *)

Quote(key) == "\"" \o key \o "\""

JsonInts == -9..9
JsonKeys == ProductIds \cup {"cookies-99", "0", "1"}

IsNumTok(tok) == \E n \in JsonInts : ToString(n) = tok
NumOf(tok) == CHOOSE n \in JsonInts : ToString(n) = tok
IsKeyTok(tok) == \E key \in JsonKeys : Quote(key) = tok
KeyOf(tok) == CHOOSE key \in JsonKeys : Quote(key) = tok

RECURSIVE StringifyMembers(_)
StringifyMembers(entries) ==
    IF Len(entries) = 0 THEN <<>>
    ELSE <<Quote(entries[1].k), ":", ToString(entries[1].v)>>
         \o (IF Len(entries) = 1 THEN <<>>
             ELSE <<",">> \o StringifyMembers(Tail(entries)))

RECURSIVE StringifyElements(_)
StringifyElements(entries) ==
    IF Len(entries) = 0 THEN <<>>
    ELSE <<ToString(entries[1].v)>>
         \o (IF Len(entries) = 1 THEN <<>>
             ELSE <<",">> \o StringifyElements(Tail(entries)))

\* JSON.stringify(value)
JSONstringify(c) ==
    CASE c.t = "null" -> <<"null">>
      [] c.t = "num"  -> <<ToString(c.n)>>
      [] c.t = "arr"  -> <<"[">> \o StringifyElements(c.e) \o <<"]">>
      [] c.t = "obj"  -> <<"{">> \o StringifyMembers(c.e) \o <<"}">>

Inner(toks) == SubSeq(toks, 2, Len(toks) - 1)
Failed == [ok |-> FALSE, val |-> JsNull]

\* members of an object literal, left to right; a repeated key keeps its
\* first place and takes the last value
RECURSIVE ParseMembers(_, _)
ParseMembers(toks, acc) ==
    IF Len(toks) >= 3 /\ IsKeyTok(toks[1]) /\ toks[2] = ":" /\ IsNumTok(toks[3])
    THEN LET got == SetKey(acc, KeyOf(toks[1]), NumOf(toks[3]))
         IN  IF Len(toks) = 3 THEN [ok |-> TRUE, val |-> JsObj(got)]
             ELSE IF toks[4] = "," THEN ParseMembers(SubSeq(toks, 5, Len(toks)), got)
             ELSE Failed
    ELSE Failed

RECURSIVE ParseElements(_, _)
ParseElements(toks, acc) ==
    IF Len(toks) >= 1 /\ IsNumTok(toks[1])
    THEN LET got == Append(acc, NumOf(toks[1]))
         IN  IF Len(toks) = 1 THEN [ok |-> TRUE, val |-> JsArr(got)]
             ELSE IF toks[2] = "," THEN ParseElements(SubSeq(toks, 3, Len(toks)), got)
             ELSE Failed
    ELSE Failed

\* JSON.parse(text): ok = FALSE stands for the SyntaxError it throws
JSONparse(toks) ==
    IF Len(toks) = 1 /\ toks[1] = "null" THEN [ok |-> TRUE, val |-> JsNull]
    ELSE IF Len(toks) = 1 /\ IsNumTok(toks[1]) THEN [ok |-> TRUE, val |-> JsNum(NumOf(toks[1]))]
    ELSE IF Len(toks) >= 2 /\ toks[1] = "[" /\ toks[Len(toks)] = "]"
         THEN IF Len(toks) = 2 THEN [ok |-> TRUE, val |-> JsArr(<<>>)]
              ELSE ParseElements(Inner(toks), <<>>)
    ELSE IF Len(toks) >= 2 /\ toks[1] = "{" /\ toks[Len(toks)] = "}"
         THEN IF Len(toks) = 2 THEN [ok |-> TRUE, val |-> JsObj(<<>>)]
              ELSE ParseMembers(Inner(toks), <<>>)
    ELSE Failed

----------------------------------------------------------------------------
(* The persistence slot *)

NoItem == [has |-> FALSE, text |-> <<>>]        \* getItem returns null
Item(toks) == [has |-> TRUE, text |-> toks]

\* the useState initializer of cart
LoadCart(s) ==
    IF ~s.has \/ s.text = <<>>                   \* raw is null or ''
    THEN JsObj(<<>>)
    ELSE IF JSONparse(s.text).ok THEN JSONparse(s.text).val
    ELSE JsObj(<<>>)                             \* catch (e)

\* the effect on [cart]: localStorage.setItem(..., JSON.stringify(cart))
SaveCart(c) == Item(JSONstringify(c))

----------------------------------------------------------------------------
(* Cart store *)

\* addToCart assigning qty instead of adding it
addToCartSets(prev, productId, qty) ==
    JsObj(SetKey(Spread(prev), productId, qty))

addToCart(prev, productId, qty) ==
    JsObj(SetKey(Spread(prev), productId, GetOr0(Spread(prev), productId) + qty))

\* updateQty with `qty < 0` for its test: a quantity of 0 is stored
updateQtyStoresZero(prev, productId, qty) ==
    IF qty < 0 THEN JsObj(DeleteKey(Spread(prev), productId))
    ELSE JsObj(SetKey(Spread(prev), productId, qty))

updateQty(prev, productId, qty) ==
    IF qty <= 0 THEN JsObj(DeleteKey(Spread(prev), productId))
    ELSE JsObj(SetKey(Spread(prev), productId, qty))

\* clearCart setting the cart it already has
clearCartKeeps == cart

clearCart == JsObj(<<>>)

RECURSIVE SumValues(_)
SumValues(entries) ==
    IF Len(entries) = 0 THEN 0
    ELSE SumValues(SubSeq(entries, 1, Len(entries) - 1)) + entries[Len(entries)].v

\* itemsInCart counting the keys, Object.keys(cart).length
itemsInCartKeys(c) == Len(ObjectEntries(c))

\* Object.values(cart).reduce((a, b) => a + b, 0)
itemsInCart(c) == SumValues(ObjectEntries(c))

\* the reducer step without its `* qty`
EntryPriceUnit(en) ==
    IF FindProduct(en.k) # 0 THEN products[FindProduct(en.k)].price ELSE 0

\* one step of cartTotal's reducer
EntryPrice(en) ==
    IF FindProduct(en.k) # 0 THEN products[FindProduct(en.k)].price * en.v ELSE 0

RECURSIVE SumPrices(_)
SumPrices(entries) ==
    IF Len(entries) = 0 THEN 0
    ELSE SumPrices(SubSeq(entries, 1, Len(entries) - 1)) + EntryPrice(entries[Len(entries)])

cartTotal(c) == SumPrices(ObjectEntries(c))

\* a render evaluates itemsInCart(), cartTotal() and Object.entries(cart)
RenderThrows(c) == EntriesThrow(c)

----------------------------------------------------------------------------
(* Product query *)

\* the texts of the catalog (names, descriptions) and the search texts
ProductTexts ==
    { "Classic Chocolate Chip",
      "Oatmeal Raisin",
      "Double Chocolate",
      "Peanut Butter Swirl",
      "Chewy, buttery cookies packed with semi-sweet chocolate chips.",
      "Wholesome oats, plump raisins and a cinnamon hint.",
      "Intense cocoa cookie with extra dark chocolate chunks.",
      "Creamy peanut butter ribbon in a soft cookie." }
SearchTexts == { "", "double", "choc", "CHOC", "Cookie", "Swirl", "zzz" }

\* a string of the program as the sequence of its characters
Chars(text) ==
    CASE text = "" -> <<>>
      [] text = "Classic Chocolate Chip" ->
         <<"C", "l", "a", "s", "s", "i", "c", " ", "C", "h", "o", "c",
           "o", "l", "a", "t", "e", " ", "C", "h", "i", "p">>
      [] text = "Oatmeal Raisin" ->
         <<"O", "a", "t", "m", "e", "a", "l", " ", "R", "a", "i", "s",
           "i", "n">>
      [] text = "Double Chocolate" ->
         <<"D", "o", "u", "b", "l", "e", " ", "C", "h", "o", "c", "o",
           "l", "a", "t", "e">>
      [] text = "Peanut Butter Swirl" ->
         <<"P", "e", "a", "n", "u", "t", " ", "B", "u", "t", "t", "e",
           "r", " ", "S", "w", "i", "r", "l">>
      [] text = "Chewy, buttery cookies packed with semi-sweet chocolate chips." ->
         <<"C", "h", "e", "w", "y", ",", " ", "b", "u", "t", "t", "e",
           "r", "y", " ", "c", "o", "o", "k", "i", "e", "s", " ",
           "p", "a", "c", "k", "e", "d", " ", "w", "i", "t", "h",
           " ", "s", "e", "m", "i", "-", "s", "w", "e", "e", "t",
           " ", "c", "h", "o", "c", "o", "l", "a", "t", "e", " ",
           "c", "h", "i", "p", "s", ".">>
      [] text = "Wholesome oats, plump raisins and a cinnamon hint." ->
         <<"W", "h", "o", "l", "e", "s", "o", "m", "e", " ", "o", "a",
           "t", "s", ",", " ", "p", "l", "u", "m", "p", " ", "r",
           "a", "i", "s", "i", "n", "s", " ", "a", "n", "d", " ",
           "a", " ", "c", "i", "n", "n", "a", "m", "o", "n", " ",
           "h", "i", "n", "t", ".">>
      [] text = "Intense cocoa cookie with extra dark chocolate chunks." ->
         <<"I", "n", "t", "e", "n", "s", "e", " ", "c", "o", "c", "o",
           "a", " ", "c", "o", "o", "k", "i", "e", " ", "w", "i",
           "t", "h", " ", "e", "x", "t", "r", "a", " ", "d", "a",
           "r", "k", " ", "c", "h", "o", "c", "o", "l", "a", "t",
           "e", " ", "c", "h", "u", "n", "k", "s", ".">>
      [] text = "Creamy peanut butter ribbon in a soft cookie." ->
         <<"C", "r", "e", "a", "m", "y", " ", "p", "e", "a", "n", "u",
           "t", " ", "b", "u", "t", "t", "e", "r", " ", "r", "i",
           "b", "b", "o", "n", " ", "i", "n", " ", "a", " ", "s",
           "o", "f", "t", " ", "c", "o", "o", "k", "i", "e", ".">>
      [] text = "double" ->
         <<"d", "o", "u", "b", "l", "e">>
      [] text = "choc" ->
         <<"c", "h", "o", "c">>
      [] text = "CHOC" ->
         <<"C", "H", "O", "C">>
      [] text = "Cookie" ->
         <<"C", "o", "o", "k", "i", "e">>
      [] text = "Swirl" ->
         <<"S", "w", "i", "r", "l">>
      [] text = "zzz" ->
         <<"z", "z", "z">>

UPPER ==
   << "A", "B", "C", "D", "E", "F", "G", "H", "I", "J", "K", "L", "M",
      "N", "O", "P", "Q", "R", "S", "T", "U", "V", "W", "X", "Y", "Z" >>
LOWER ==
   << "a", "b", "c", "d", "e", "f", "g", "h", "i", "j", "k", "l", "m",
      "n", "o", "p", "q", "r", "s", "t", "u", "v", "w", "x", "y", "z" >>

\* toLowerCase keeping every character as it is
toLowerCaseKeeps(chars) == chars

\* String.prototype.toLowerCase, on the characters the texts are made of
toLowerCase(chars) ==
    [i \in 1..Len(chars) |->
        IF \E j \in 1..Len(UPPER) : UPPER[j] = chars[i]
        THEN LOWER[CHOOSE j \in 1..Len(UPPER) : UPPER[j] = chars[i]]
        ELSE chars[i]]

\* String.prototype.includes
includes(hay, needle) ==
    \E i \in 0..(Len(hay) - Len(needle)) : SubSeq(hay, i + 1, i + Len(needle)) = needle

\* text.toLowerCase().includes(q.toLowerCase()), computed once for each
\* text and search text
LowerIncludes ==
    [text \in ProductTexts, q \in SearchTexts |->
        includes(toLowerCase(Chars(text)), toLowerCase(Chars(q)))]

\* the predicate of the first filter
MatchesQuery(p, q) == LowerIncludes[p.name, q] \/ LowerIncludes[p.desc, q]

\* the comparators of the two sorts
ByPriceAsc(a, b) == a.price - b.price
ByPriceDesc(a, b) == b.price - a.price
Compare(mode, a, b) == IF mode = "price-asc" THEN ByPriceAsc(a, b) ELSE ByPriceDesc(a, b)

\* the insertion going before the elements that compare equal
InsertBeforeEqual(sorted, x, mode) ==
    LET n == Cardinality({i \in 1..Len(sorted) : Compare(mode, sorted[i], x) < 0})
    IN SubSeq(sorted, 1, n) \o <<x>> \o SubSeq(sorted, n + 1, Len(sorted))

\* x put into a sorted array after every element that does not compare
\* greater than it
InsertSorted(sorted, x, mode) ==
    LET n == Cardinality({i \in 1..Len(sorted) : Compare(mode, sorted[i], x) <= 0})
    IN SubSeq(sorted, 1, n) \o <<x>> \o SubSeq(sorted, n + 1, Len(sorted))

\* Array.prototype.sort with a comparator: the elements in comparator order,
\* those that compare equal in the order they had (the sort is stable)
RECURSIVE ArraySort(_, _)
ArraySort(arr, mode) ==
    IF Len(arr) = 0 THEN <<>>
    ELSE InsertSorted(ArraySort(SubSeq(arr, 1, Len(arr) - 1), mode), arr[Len(arr)], mode)

filteredProducts(ps, q, cat, mode) ==
    LET out1 == SelectSeq(ps, LAMBDA p : MatchesQuery(p, q))
        out2 == IF cat # "All" THEN SelectSeq(out1, LAMBDA p : p.category = cat) ELSE out1
        out3 == IF mode = "price-asc" THEN ArraySort(out2, "price-asc") ELSE out2
        out4 == IF mode = "price-desc" THEN ArraySort(out3, "price-desc") ELSE out3
    IN out4

\* the sorts run on the catalog array itself
productsSortedInPlace(ps, q, cat, mode) ==
    IF mode \in {"price-asc", "price-desc"} THEN ArraySort(ps, mode) ELSE ps

\* the catalog array after filteredProducts() has run: `out` is the array
\* the first filter made, so the in-place sorts leave `products` as it was
productsAfterQuery(ps, q, cat, mode) == ps

\* ['All', ...new Set(products.map(p => p.category))], as a set
categories == {"All"} \cup {products[i].category : i \in 1..Len(products)}

----------------------------------------------------------------------------
(* Order builder *)

NoOrder == [held |-> FALSE, id |-> "", customer |-> [name |-> "", email |-> "", address |-> ""],
            items |-> <<>>, subtotal |-> 0, note |-> ""]

ORDER_NOTE == "This is a simulated checkout - integrate a payment gateway for real orders."

\* the line item without the `|| id` of its name
LineItemNoFallback(en) ==
    [id |-> en.k,
     name |-> IF FindProduct(en.k) # 0 THEN products[FindProduct(en.k)].name ELSE "",
     qty |-> en.v,
     unitPrice |-> IF FindProduct(en.k) # 0 THEN products[FindProduct(en.k)].price ELSE 0]

\* one element of order.items
LineItem(en) ==
    [id |-> en.k,
     name |-> IF FindProduct(en.k) # 0 THEN products[FindProduct(en.k)].name ELSE en.k,
     qty |-> en.v,
     unitPrice |-> IF FindProduct(en.k) # 0 THEN products[FindProduct(en.k)].price ELSE 0]

\* Object.entries(cart).map(...)
LineItems(c) == [i \in 1..Len(ObjectEntries(c)) |-> LineItem(ObjectEntries(c)[i])]

\* 'ORD-' + Date.now()
OrderId(now) == "ORD-" \o ToString(now)

\* the order object; its date field (a second, independent clock reading in
\* ISO form) is not carried
BuildOrder(c, info, now) ==
    [held |-> TRUE, id |-> OrderId(now), customer |-> info, items |-> LineItems(c),
     subtotal |-> cartTotal(c), note |-> ORDER_NOTE]

\* a.download
ReceiptName(order) == order.id \o "_receipt.json"

\* the validation testing the name alone
FieldsMissingNameOnly(info) == info.name = ""

\* !orderInfo.name || !orderInfo.email || !orderInfo.address
FieldsMissing(info) == info.name = "" \/ info.email = "" \/ info.address = ""

ALERT_FIELDS == "Please complete name, email and address."
ALERT_EMPTY == "Cart is empty. Add some cookies first."

----------------------------------------------------------------------------
(* Inputs *)

\* what the slot may hold when the page is opened
SlotContents ==
    { NoItem,
      Item(<<>>),
      Item(<<"{", "\"cookies-01\"", ":">>),
      Item(<<"null">>),
      Item(<<"7">>),
      Item(<<"[", "2", "]">>),
      Item(<<"{", "}">>),
      Item(<<"{", "\"cookies-01\"", ":", "0", "}">>),
      Item(<<"{", "\"cookies-01\"", ":", "2", "}">>),
      Item(<<"{", "\"cookies-99\"", ":", "1", "}">>),
      Item(<<"{", "\"cookies-03\"", ":", "1", ",", "\"cookies-01\"", ":", "3", "}">>) }

\* the product cards whose buttons are pressed in a whole session, and the
\* quantities of their two buttons, Add and Add 3
IdInputs == {"cookies-01", "cookies-03"}
AddQtys == {1, 3}

\* the - and + buttons of a cart preview row: updateQty(id, qty - 1), (id, qty + 1)
QtySteps == {-1, 1}

\* texts typed in the search box, options picked in the two selects
QueryInputs == {"", "double"}
CategoryInputs == {"All", "Classic"}
SortInputs == {"featured", "price-desc"}

\* arguments of the cart functions taken alone: every product, an id the
\* catalog does not have, the keys of the cart; negative quantities too
AnyIds == ProductIds \cup {"cookies-99"}
AnyQtys == -MaxNeg..MaxAnyQty

\* readings of Date.now()
Clock == {1000, 1001}
FieldInputs == [name |-> {"", "Jo"}, email |-> {"", "j@x.com"}, address |-> {"", "1 St"}]

CartKeys(c) == {c.e[i].k : i \in 1..Len(c.e)}
Fits(c, maxKeys, minQty, maxQty) ==
    /\ Len(c.e) <= maxKeys
    /\ \A i \in 1..Len(c.e) : minQty <= c.e[i].v /\ c.e[i].v <= maxQty
InBounds(c) == Len(c.e) <= MaxKeys /\ SumValues(c.e) <= MaxItems
InAnyBounds(c) == Fits(c, MaxAnyKeys, -MaxNeg, MaxAnyQty)

----------------------------------------------------------------------------
(* The component *)

\* the state after the first render and its effect, the catalog being
\* `catalog` and the slot holding one of `contents` when the page is opened
InitWith(catalog, contents) ==
    \E s \in contents :
        /\ products = catalog
        /\ query = ""
        /\ category = "All"
        /\ sort = "featured"
        /\ cart = LoadCart(s)
        /\ crashed = RenderThrows(LoadCart(s))
        /\ slot = IF RenderThrows(LoadCart(s)) THEN s ELSE SaveCart(LoadCart(s))
        /\ checkoutOpen = FALSE
        /\ orderInfo = [name |-> "", email |-> "", address |-> ""]
        /\ orderPlaced = NoOrder
        /\ alertMsg = ""
        /\ receipts = {}

InitFrom(contents) == InitWith(SAMPLE_PRODUCTS, contents)

Init == InitFrom(SlotContents)

\* the re-render that follows a state update evaluates filteredProducts()
Render ==
    products' = productsAfterQuery(products, query', category', sort')

\* the product cards on the page
VisibleIds ==
    LET shown == filteredProducts(products, query, category, sort)
    IN {shown[i].id : i \in 1..Len(shown)}

\* setCart(next) with an effect that runs on mount only (dependencies [])
CommitCartUnsaved(next) ==
    /\ cart' = next
    /\ crashed' = RenderThrows(next)
    /\ slot' = slot

\* setCart(next) followed by the re-render and the save effect
CommitCart(next) ==
    /\ cart' = next
    /\ crashed' = RenderThrows(next)
    /\ slot' = IF RenderThrows(next) THEN slot ELSE SaveCart(next)

\* the intent addToCart(productId, qty)
AddToCartOf(productId, qty) ==
    /\ ~crashed
    /\ CommitCart(addToCart(cart, productId, qty))
    /\ alertMsg' = ""
    /\ UNCHANGED <<checkoutOpen, orderInfo, orderPlaced, receipts, query, category, sort>>
    /\ Render

\* the intent updateQty(productId, qty)
UpdateQtyOf(productId, qty) ==
    /\ ~crashed
    /\ CommitCart(updateQty(cart, productId, qty))
    /\ alertMsg' = ""
    /\ UNCHANGED <<checkoutOpen, orderInfo, orderPlaced, receipts, query, category, sort>>
    /\ Render

\* the Add and Add 3 buttons of a product card on the page
AddToCart ==
    /\ ~crashed
    /\ \E productId \in IdInputs \cap VisibleIds, qty \in AddQtys :
        /\ InBounds(addToCart(cart, productId, qty))
        /\ AddToCartOf(productId, qty)

\* the - and + buttons of a row of the cart preview
UpdateQty ==
    /\ ~crashed
    /\ \E i \in 1..Len(ObjectEntries(cart)), d \in QtySteps :
        /\ InBounds(updateQty(cart, ObjectEntries(cart)[i].k, ObjectEntries(cart)[i].v + d))
        /\ UpdateQtyOf(ObjectEntries(cart)[i].k, ObjectEntries(cart)[i].v + d)

\* Clear Cart discarding the held order as well
ClearCartDropsOrder ==
    /\ ~crashed
    /\ CommitCart(clearCart)
    /\ alertMsg' = ""
    /\ orderPlaced' = NoOrder
    /\ UNCHANGED <<checkoutOpen, orderInfo, receipts, query, category, sort>>
    /\ Render

ClearCart ==
    /\ ~crashed
    /\ CommitCart(clearCart)
    /\ alertMsg' = ""
    /\ UNCHANGED <<checkoutOpen, orderInfo, orderPlaced, receipts, query, category, sort>>
    /\ Render

\* the Cart button (toggle), Proceed to Checkout (true), backdrop and Cancel (false)
SetCheckoutOpen ==
    /\ ~crashed
    /\ \E b \in BOOLEAN : checkoutOpen' = b
    /\ alertMsg' = ""
    /\ UNCHANGED <<cart, slot, orderInfo, orderPlaced, receipts, crashed, query, category, sort>>
    /\ Render

\* onChange of the three inputs of the checkout form
SetOrderInfo ==
    /\ ~crashed
    /\ checkoutOpen
    /\ \/ \E v \in FieldInputs.name : orderInfo' = [orderInfo EXCEPT !.name = v]
       \/ \E v \in FieldInputs.email : orderInfo' = [orderInfo EXCEPT !.email = v]
       \/ \E v \in FieldInputs.address : orderInfo' = [orderInfo EXCEPT !.address = v]
    /\ alertMsg' = ""
    /\ UNCHANGED <<cart, slot, checkoutOpen, orderPlaced, receipts, crashed, query, category, sort>>
    /\ Render

RejectFields ==
    /\ FieldsMissing(orderInfo)
    /\ alertMsg' = ALERT_FIELDS
    /\ UNCHANGED <<cart, slot, checkoutOpen, orderInfo, orderPlaced, receipts, crashed>>
    /\ UNCHANGED <<products, query, category, sort>>

RejectEmpty ==
    /\ ~FieldsMissing(orderInfo)
    /\ itemsInCart(cart) = 0
    /\ alertMsg' = ALERT_EMPTY
    /\ UNCHANGED <<cart, slot, checkoutOpen, orderInfo, orderPlaced, receipts, crashed>>
    /\ UNCHANGED <<products, query, category, sort>>

\* the order built without the test of itemsInCart()
PlaceOrderUnchecked ==
    /\ ~FieldsMissing(orderInfo)
    /\ \E now \in Clock :
        /\ orderPlaced' = BuildOrder(cart, orderInfo, now)
        /\ receipts' = receipts \cup {ReceiptName(BuildOrder(cart, orderInfo, now))}
    /\ CommitCart(clearCart)
    /\ checkoutOpen' = FALSE
    /\ alertMsg' = ""
    /\ UNCHANGED <<orderInfo, query, category, sort>>
    /\ Render

PlaceOrder ==
    /\ ~FieldsMissing(orderInfo)
    /\ itemsInCart(cart) # 0
    /\ \E now \in Clock :
        /\ orderPlaced' = BuildOrder(cart, orderInfo, now)
        /\ receipts' = receipts \cup {ReceiptName(BuildOrder(cart, orderInfo, now))}
    /\ CommitCart(clearCart)
    /\ checkoutOpen' = FALSE
    /\ alertMsg' = ""
    /\ UNCHANGED <<orderInfo, query, category, sort>>
    /\ Render

\* onSubmit of the checkout form, which exists while checkoutOpen.  The
\* handler is taken with any field values: the `required` attribute of the
\* inputs is the browser's validation, not the handler's.
HandlePlaceOrder ==
    /\ ~crashed
    /\ checkoutOpen
    /\ (RejectFields \/ RejectEmpty \/ PlaceOrder)

\* the Close button of the confirmation panel
DismissOrder ==
    /\ ~crashed
    /\ orderPlaced.held
    /\ orderPlaced' = NoOrder
    /\ alertMsg' = ""
    /\ UNCHANGED <<cart, slot, checkoutOpen, orderInfo, receipts, crashed, query, category, sort>>
    /\ Render

\* the intent setQuery(text), followed by the re-render
SetQueryOf(text) ==
    /\ ~crashed
    /\ text # query
    /\ query' = text
    /\ alertMsg' = ""
    /\ UNCHANGED <<category, sort, cart, slot, checkoutOpen, orderInfo, orderPlaced,
                   receipts, crashed>>
    /\ Render

\* setCategory(c) emptying the cart as well
SetCategoryEmptiesCart(c) ==
    /\ ~crashed
    /\ c # category
    /\ category' = c
    /\ CommitCart(clearCart)
    /\ alertMsg' = ""
    /\ UNCHANGED <<query, sort, checkoutOpen, orderInfo, orderPlaced, receipts>>
    /\ Render

\* the intent setCategory(c)
SetCategoryOf(c) ==
    /\ ~crashed
    /\ c # category
    /\ category' = c
    /\ alertMsg' = ""
    /\ UNCHANGED <<query, sort, cart, slot, checkoutOpen, orderInfo, orderPlaced,
                   receipts, crashed>>
    /\ Render

\* the intent setSort(mode)
SetSortOf(mode) ==
    /\ ~crashed
    /\ mode # sort
    /\ sort' = mode
    /\ alertMsg' = ""
    /\ UNCHANGED <<query, category, cart, slot, checkoutOpen, orderInfo, orderPlaced,
                   receipts, crashed>>
    /\ Render

\* onChange of the search box
SetQuery == \E text \in QueryInputs : SetQueryOf(text)

\* onChange of the category select, whose options are `categories`
SetCategory == \E c \in CategoryInputs \cap categories : SetCategoryOf(c)

\* onChange of the sort select
SetSort == \E mode \in SortInputs : SetSortOf(mode)

Next ==
    \/ SetQuery
    \/ SetCategory
    \/ SetSort
    \/ AddToCart
    \/ UpdateQty
    \/ ClearCart
    \/ SetCheckoutOpen
    \/ SetOrderInfo
    \/ HandlePlaceOrder
    \/ DismissOrder

Spec == Init /\ [][Next]_vars

----------------------------------------------------------------------------
(* The cart functions taken alone: any loaded cart, any arguments *)

AddToCartAny ==
    \E productId \in AnyIds \cup CartKeys(cart), qty \in AnyQtys :
        /\ InAnyBounds(addToCart(cart, productId, qty))
        /\ AddToCartOf(productId, qty)

UpdateQtyAny ==
    \E productId \in AnyIds \cup CartKeys(cart), qty \in AnyQtys :
        /\ InAnyBounds(updateQty(cart, productId, qty))
        /\ UpdateQtyOf(productId, qty)

NextCart ==
    \/ AddToCartAny
    \/ UpdateQtyAny
    \/ ClearCart

SpecCart == Init /\ [][NextCart]_vars

----------------------------------------------------------------------------
(* A session opened on a slot that was never written *)

InitFresh == InitFrom({NoItem})

SpecFresh == InitFresh /\ [][Next]_vars

----------------------------------------------------------------------------
(* The product query taken alone: any catalog of the four products with     *)
(* prices that may tie, any search text, category and sort mode            *)

TiePrices == {400, 450}
WithPrices(prices) ==
    [i \in 1..Len(SAMPLE_PRODUCTS) |-> [SAMPLE_PRODUCTS[i] EXCEPT !.price = prices[i]]]
Catalogs ==
    {SAMPLE_PRODUCTS} \cup {WithPrices(prices) : prices \in [1..Len(SAMPLE_PRODUCTS) -> TiePrices]}

AnyQueries == {"", "choc", "CHOC", "Cookie", "Swirl", "zzz"}
AnyCategories == {"All", "Classic", "Healthy", "Decadent", "Vegan"}
AnySorts == {"featured", "price-asc", "price-desc"}

InitQuery == \E catalog \in Catalogs : InitWith(catalog, {NoItem})

SetQueryAny == \E text \in AnyQueries : SetQueryOf(text)
SetCategoryAny == \E c \in AnyCategories : SetCategoryOf(c)
SetSortAny == \E mode \in AnySorts : SetSortOf(mode)

NextQuery ==
    \/ SetQueryAny
    \/ SetCategoryAny
    \/ SetSortAny

SpecQuery == InitQuery /\ [][NextQuery]_vars

----------------------------------------------------------------------------
(* Vocabulary of the properties, stated on the cart as a mapping and on the *)
(* order as a record, apart from the operators that model the code          *)

EmptyMapping == [t |-> "obj", n |-> 0, e |-> <<>>]

IsMapping(c) == c.t = "obj"

\* the quantity a mapping gives a key; Absent when it has no such key
Absent == "absent"
QtyAt(c, key) ==
    IF \E i \in 1..Len(c.e) : c.e[i].k = key
    THEN ToString((CHOOSE en \in {c.e[i] : i \in 1..Len(c.e)} : en.k = key).v)
    ELSE Absent

\* the quantity a mapping gives a key, 0 when it has no such key
QtyOrZero(c, key) ==
    IF \E i \in 1..Len(c.e) : c.e[i].k = key
    THEN (CHOOSE en \in {c.e[i] : i \in 1..Len(c.e)} : en.k = key).v
    ELSE 0

\* itemCount: the sum of all quantities
RECURSIVE ItemCount(_)
ItemCount(entries) ==
    IF entries = <<>> THEN 0 ELSE Head(entries).v + ItemCount(Tail(entries))

PriceOf(key) ==
    IF key \in ProductIds
    THEN (CHOOSE p \in {products[i] : i \in 1..Len(products)} : p.id = key).price
    ELSE 0

\* the name a line item shows for a key: the product's, or the key itself
NameOf(key) ==
    IF key \in ProductIds
    THEN (CHOOSE p \in {products[i] : i \in 1..Len(products)} : p.id = key).name
    ELSE key

\* total(cart, catalog): quantity x price over the entries, 0 for an unknown id
RECURSIVE Total(_)
Total(entries) ==
    IF entries = <<>> THEN 0
    ELSE Head(entries).v * PriceOf(Head(entries).k) + Total(Tail(entries))

\* quantity x unitPrice over an order's line items
RECURSIVE LineItemsSum(_)
LineItemsSum(items) ==
    IF items = <<>> THEN 0
    ELSE Head(items).qty * Head(items).unitPrice + LineItemsSum(Tail(items))

AnyFieldEmpty == orderInfo.name = "" \/ orderInfo.email = "" \/ orderInfo.address = ""

\* a submission that must be refused / that must succeed
InvalidSubmit == HandlePlaceOrder /\ (AnyFieldEmpty \/ ItemCount(cart.e) = 0)
ValidSubmit == HandlePlaceOrder /\ ~AnyFieldEmpty /\ ItemCount(cart.e) # 0

\* the product list on the page
view == filteredProducts(products, query, category, sort)

\* the place of a product in the catalog as it was written
OriginalIndex(p) ==
    CHOOSE i \in 1..Len(SAMPLE_PRODUCTS) : SAMPLE_PRODUCTS[i].id = p.id

\* a letter as its capital, any other character as itself
Capital(c) ==
    IF \E j \in 1..Len(LOWER) : LOWER[j] = c
    THEN UPPER[CHOOSE j \in 1..Len(LOWER) : LOWER[j] = c]
    ELSE c

\* text contains q somewhere, letters compared without their case
ContainsIgnoringCase(text, q) ==
    \E off \in 0..(Len(Chars(text)) - Len(Chars(q))) :
        \A j \in 1..Len(Chars(q)) :
            Capital(Chars(text)[off + j]) = Capital(Chars(q)[j])

\* the product is selected by the search text and the category
Selected(p) ==
    /\ ContainsIgnoringCase(p.name, query) \/ ContainsIgnoringCase(p.desc, query)
    /\ category = "All" \/ p.category = category

SelectedProducts == {products[i] : i \in {j \in 1..Len(products) : Selected(products[j])}}

ViewIds(v) == [k \in 1..Len(v) |-> v[k].id]

CartIntent == AddToCart \/ UpdateQty \/ ClearCart
QueryIntent == SetQuery \/ SetCategory \/ SetSort

----------------------------------------------------------------------------
(* Properties *)

\* C1: in every state of a session, the cart is a mapping whose every key is
\* the id of a catalog product and whose every quantity is an integer >= 1.
C1_CartWellFormed ==
    /\ IsMapping(cart)
    /\ \A i \in 1..Len(cart.e) : cart.e[i].k \in ProductIds /\ cart.e[i].v >= 1

\* C2: after every intent has been handled, the text in the slot
\* 'cookie_shop_cart' parses to a value equal to the in-memory cart.
C2_WriteThrough ==
    /\ slot.has
    /\ JSONparse(slot.text).ok
    /\ JSONparse(slot.text).val = cart

C2_Witness ==
    /\ cart = JsObj(<<[k |-> "cookies-03", v |-> 2], [k |-> "cookies-01", v |-> 1]>>)
    /\ slot = Item(<<"{", "\"cookies-03\"", ":", "2", ",", "\"cookies-01\"", ":", "1", "}">>)

\* C3: a submission with an empty name, email or address, or with a cart
\* whose item count is 0, sets no order and downloads no receipt, and its
\* alert names the precondition that failed: one text for the empty fields,
\* another for the empty cart.
C3_RefusesInvalid ==
    [][InvalidSubmit =>
          /\ orderPlaced' = orderPlaced
          /\ receipts' = receipts
          /\ AnyFieldEmpty => alertMsg' = ALERT_FIELDS
          /\ ~AnyFieldEmpty => alertMsg' = ALERT_EMPTY
          /\ ALERT_FIELDS # ALERT_EMPTY]_vars

C3_Witness ==
    /\ alertMsg = ALERT_FIELDS
    /\ checkoutOpen
    /\ orderInfo.name # "" /\ orderInfo.email = ""
    /\ ItemCount(cart.e) > 0
    /\ ~orderPlaced.held

\* C4: a refused submission leaves the cart, the slot, the checkout flag, the
\* customer fields and the held order exactly as they were.
C4_RejectionFrame ==
    [][InvalidSubmit => UNCHANGED <<cart, slot, checkoutOpen, orderInfo, orderPlaced>>]_vars

C4_Witness ==
    /\ alertMsg = ALERT_EMPTY
    /\ checkoutOpen
    /\ ~AnyFieldEmpty
    /\ ItemCount(cart.e) = 0
    /\ orderPlaced.held

\* C5: the state right after a successful submission has the empty cart, the
\* order held and the checkout closed, and the order's line items are the
\* entries the cart had before it was cleared.
C5_ClearedAfterOrder ==
    [][ValidSubmit =>
          /\ cart' = EmptyMapping
          /\ orderPlaced'.held
          /\ ~checkoutOpen'
          /\ Len(orderPlaced'.items) = Len(cart.e)
          /\ \A i \in 1..Len(cart.e) :
                /\ orderPlaced'.items[i].id = cart.e[i].k
                /\ orderPlaced'.items[i].qty = cart.e[i].v]_vars

C5_Witness ==
    /\ orderPlaced.held
    /\ Len(orderPlaced.items) = 2
    /\ cart = EmptyMapping
    /\ ~checkoutOpen
    /\ slot = Item(<<"{", "}">>)

\* C6: the id of every order placed differs from the id of every order placed
\* before it in the session (whose receipts were downloaded), whatever the
\* clock reads.
C6_UniqueOrderIds ==
    [][ValidSubmit => (orderPlaced'.id \o "_receipt.json") \notin receipts]_vars

\* C7: the subtotal of every order placed equals the sum of quantity x
\* unitPrice over its own line items, and equals the total of the cart as it
\* was just before the submission.
C7_SubtotalConsistent ==
    [][ValidSubmit =>
          /\ orderPlaced'.subtotal = LineItemsSum(orderPlaced'.items)
          /\ orderPlaced'.subtotal = Total(cart.e)]_vars

C7_Witness ==
    /\ orderPlaced.held
    /\ Len(orderPlaced.items) = 2
    /\ orderPlaced.items[1].id = "cookies-03" /\ orderPlaced.items[1].qty = 2
    /\ orderPlaced.items[2].id = "cookies-01" /\ orderPlaced.items[2].qty = 1
    /\ orderPlaced.subtotal = 1450

\* C8: updateQty(id, quantity) yields a mapping in which id is absent when
\* quantity <= 0 and maps exactly to quantity when quantity > 0, every other
\* key keeping the quantity it had.
C8_SetQuantityAbsolute ==
    [][\A id \in AnyIds \cup CartKeys(cart), q \in AnyQtys :
          UpdateQtyOf(id, q) =>
             /\ IsMapping(cart')
             /\ q <= 0 => QtyAt(cart', id) = Absent
             /\ q > 0 => QtyAt(cart', id) = ToString(q)
             /\ \A key \in (AnyIds \cup CartKeys(cart) \cup CartKeys(cart')) \ {id} :
                   QtyAt(cart', key) = QtyAt(cart, key)]_vars

C8_Witness ==
    /\ IsMapping(cart)
    /\ QtyAt(cart, "cookies-99") = "1"
    /\ QtyAt(cart, "cookies-04") = "2"

\* C9: addToCart(id, q) with q <= 0 leaves the cart as it was.
C9_AddNonPositiveNoop ==
    [][\A id \in AnyIds \cup CartKeys(cart), q \in AnyQtys :
          (q <= 0 /\ AddToCartOf(id, q)) => cart' = cart]_vars

\* C10: whatever the slot holds when the page is opened, the cart is a
\* mapping and no render fails on it.
C10_LoadYieldsMapping == ~crashed /\ IsMapping(cart)

\* C11: for every mapping cart, cartTotal is the sum of quantity x price over
\* the entries whose id is a catalog product (0 for the others), and it is
\* never negative.
C11_TotalWeightedNonNegative ==
    IsMapping(cart) => (cartTotal(cart) = Total(cart.e) /\ cartTotal(cart) >= 0)

\* C12: addToCart(id, q) with q > 0 yields a mapping in which id has its
\* previous quantity plus q (q when it was absent), every other key keeping
\* the quantity it had.
C12_AddAccumulates ==
    [][\A id \in AnyIds \cup CartKeys(cart), q \in AnyQtys :
          (q > 0 /\ AddToCartOf(id, q)) =>
             /\ IsMapping(cart')
             /\ QtyAt(cart', id) = ToString(QtyOrZero(cart, id) + q)
             /\ \A key \in (AnyIds \cup CartKeys(cart) \cup CartKeys(cart')) \ {id} :
                   QtyAt(cart', key) = QtyAt(cart, key)]_vars

C12_Witness ==
    /\ IsMapping(cart)
    /\ QtyAt(cart, "cookies-02") = "3"
    /\ QtyAt(cart, "cookies-99") = "2"

\* C13: the order of a successful submission has one line item per cart key,
\* in the cart's order, with that key's id and quantity and the catalog
\* product's name and price; a key of no catalog product has its id for name
\* and 0 for unit price.
C13_LineItemsSnapshot ==
    [][ValidSubmit =>
          /\ Len(orderPlaced'.items) = Len(cart.e)
          /\ \A i \in 1..Len(cart.e) :
                orderPlaced'.items[i] =
                    [id |-> cart.e[i].k, name |-> NameOf(cart.e[i].k),
                     qty |-> cart.e[i].v, unitPrice |-> PriceOf(cart.e[i].k)]]_vars

C13_Witness ==
    /\ orderPlaced.held
    /\ Len(orderPlaced.items) = 2
    /\ orderPlaced.items[1] =
          [id |-> "cookies-99", name |-> "cookies-99", qty |-> 1, unitPrice |-> 0]
    /\ orderPlaced.items[2] =
          [id |-> "cookies-03", name |-> "Double Chocolate", qty |-> 2, unitPrice |-> 500]

\* C18: in a session opened on an empty cart, a held order has at least one
\* line item, every line item has quantity >= 1, and its subtotal is > 0.
C18_NoDegenerateOrder ==
    orderPlaced.held =>
        /\ Len(orderPlaced.items) >= 1
        /\ \A i \in 1..Len(orderPlaced.items) : orderPlaced.items[i].qty >= 1
        /\ orderPlaced.subtotal > 0

C18_Witness ==
    /\ orderPlaced.held
    /\ Len(orderPlaced.items) = 1
    /\ orderPlaced.items[1].id = "cookies-01"
    /\ orderPlaced.items[1].qty = 3
    /\ orderPlaced.subtotal = 1350

\* C14: while an order is held, addToCart, updateQty, clearCart, a change of
\* the search text, category or sort mode, an edit of a customer field and a
\* refused submission leave it as it is; it changes only by the Close of the
\* confirmation (to none) or by another successful submission.  Stated on
\* the steps that change it: none of them is one of those intents, each of
\* them is the Close or a successful submission.
C14_HeldOrderImmutable ==
    [][(orderPlaced.held /\ orderPlaced' # orderPlaced) =>
          /\ ~(CartIntent \/ QueryIntent \/ SetOrderInfo \/ InvalidSubmit)
          /\ (DismissOrder /\ orderPlaced' = NoOrder) \/ ValidSubmit]_vars

C14_Witness ==
    /\ orderPlaced.held
    /\ orderPlaced.items = <<[id |-> "cookies-01", name |-> "Classic Chocolate Chip",
                              qty |-> 1, unitPrice |-> 450]>>
    /\ QtyAt(cart, "cookies-03") = "1"
    /\ query = "double"
    /\ alertMsg = ALERT_FIELDS

\* C15: the view holds exactly the selected products, each once; with sort
\* 'featured' they are in catalog order, with 'price-asc' in non-decreasing
\* and with 'price-desc' in non-increasing price order, products of equal
\* price being in catalog order in both price modes.
C15_SortCorrectStable ==
    /\ Len(view) = Cardinality(SelectedProducts)
    /\ {view[k] : k \in 1..Len(view)} = SelectedProducts
    /\ \A i, j \in 1..Len(view) :
          i < j =>
             /\ sort = "featured" => OriginalIndex(view[i]) < OriginalIndex(view[j])
             /\ sort = "price-asc" => view[i].price <= view[j].price
             /\ sort = "price-desc" => view[i].price >= view[j].price
             /\ (sort \in {"price-asc", "price-desc"} /\ view[i].price = view[j].price) =>
                   OriginalIndex(view[i]) < OriginalIndex(view[j])

C15_Witness ==
    /\ sort = "price-desc"
    /\ ViewIds(view) = <<"cookies-01", "cookies-03", "cookies-02", "cookies-04">>
    /\ view[1].price = view[2].price
    /\ view[3].price = view[4].price

C17_FilterExact ==
    /\ \A i \in 1..Len(products) :
          (\E k \in 1..Len(view) : view[k] = products[i]) <=> Selected(products[i])
    /\ \A k \in 1..Len(view) : \E i \in 1..Len(products) : view[k] = products[i]
    /\ (category # "All" /\ \A i \in 1..Len(products) : products[i].category # category)
          => view = <<>>

C17_Witness ==
    /\ query = "CHOC"
    /\ category = "Classic"
    /\ ViewIds(view) = <<"cookies-01">>

\* C19: a change of the search text, category or sort mode leaves the cart
\* and the slot as they were, and the item count and the total are those of
\* all the cart's entries, shown on the page or not; addToCart, updateQty and
\* clearCart leave the search text, category and sort mode as they were.
\* Stated on the steps that change them: a step that changes the cart or the
\* slot is no query intent, a step that changes the search text, category or
\* sort mode is no cart intent.
C19_CartQueryIndependent ==
    [][/\ (cart' # cart \/ slot' # slot) => ~QueryIntent
       /\ (query' # query \/ category' # category \/ sort' # sort) => ~CartIntent
       /\ itemsInCart(cart') = ItemCount(cart'.e)
       /\ cartTotal(cart') = Total(cart'.e)]_vars

C19_Witness ==
    /\ category = "Classic"
    /\ "cookies-03" \notin VisibleIds
    /\ cart = JsObj(<<[k |-> "cookies-03", v |-> 2]>>)
    /\ slot = Item(<<"{", "\"cookies-03\"", ":", "2", "}">>)

====
